---- MODULE Spec2Model ----
(***************************************************************************)
(* A model of the directory-scoped transcription pipeline:                 *)
(*   trigger/handler.py  - the Batch Planner (upload notification)         *)
(*   worker/handler.py   - the Per-File Processor (one work record)        *)
(*   status/handler.py   - the Status Aggregator (completion signal)       *)
(* The object store is modelled by its keys (sequences of characters), the *)
(* user metadata of each object and the bodies of the status record and    *)
(* of the work manifest.  Python dicts are functions whose domain is the   *)
(* set of keys present.                                                    *)
(***************************************************************************)
EXTENDS Integers, Sequences, FiniteSets, TLC

(***************************************************************************)
(* Bounds of the model.                                                    *)
(***************************************************************************)
\* at most this many objects in the input bucket
MaxKeys == 3
\* at most this many head_object calls of one Aggregator scan raise
MaxUnreadable == 1

(***************************************************************************)
(* Strings: a Python str is a sequence of one-character strings.           *)
(***************************************************************************)
EndsWith(s, suf) ==
    /\ Len(s) >= Len(suf)
    /\ SubSeq(s, Len(s) - Len(suf) + 1, Len(s)) = suf

StartsWith(s, pre) ==
    /\ Len(s) >= Len(pre)
    /\ SubSeq(s, 1, Len(pre)) = pre

UpperLetters ==
    <<"A","B","C","D","E","F","G","H","I","J","K","L","M",
      "N","O","P","Q","R","S","T","U","V","W","X","Y","Z">>

LowerLetters ==
    <<"a","b","c","d","e","f","g","h","i","j","k","l","m",
      "n","o","p","q","r","s","t","u","v","w","x","y","z">>

LowerChar(c) ==
    IF \E i \in 1..Len(UpperLetters) : UpperLetters[i] = c
    THEN LowerLetters[CHOOSE i \in 1..Len(UpperLetters) : UpperLetters[i] = c]
    ELSE c

\* str.lower()
Lower(s) == [i \in 1..Len(s) |-> LowerChar(s[i])]

\* str.rfind(c), 1-based; 0 when c does not occur
RFind(s, c) ==
    IF \E i \in 1..Len(s) : s[i] = c
    THEN CHOOSE i \in 1..Len(s) :
            s[i] = c /\ \A j \in (i+1)..Len(s) : s[j] # c
    ELSE 0

\* os.path.splitext(key)[1]: the extension starts at the last dot of the
\* last path component, unless only dots precede it in that component
SplitExt(p) ==
    LET sepIndex == RFind(p, "/")
        dotIndex == RFind(p, ".")
    IN  IF /\ dotIndex > sepIndex
           /\ \E i \in (sepIndex + 1)..(dotIndex - 1) : p[i] # "."
        THEN SubSeq(p, dotIndex, Len(p))
        ELSE <<>>

\* "/".join(key.split("/")[:-1]): what precedes the last "/"; then a
\* trailing "/" when that is not empty
DirectoryPath(key) ==
    LET joined == SubSeq(key, 1, RFind(key, "/") - 1)
    IN  IF joined # <<>> THEN joined \o <<"/">> ELSE joined

DotJson == <<".","j","s","o","n">>
StatusSuffix == <<"_","s","t","a","t","u","s",".","j","s","o","n">>
BatchSuffix == <<"_","b","a","t","c","h","_","i","n","p","u","t",".","j","s","o","n">>
PromptJson == <<"p","r","o","m","p","t",".","j","s","o","n">>

SUPPORTED_EXTENSIONS ==
    << <<".","p","n","g">>, <<".","j","p","g">>, <<".","j","p","e","g">> >>

\* f"{directory_path}_status.json"
StatusKey(dir) == dir \o StatusSuffix
\* f"{directory_path}_batch_input.json"
BatchFileKey(dir) == dir \o BatchSuffix
\* OutputKey naming one object per directory instead of one per file
OutputKeyOfDirectory(fileKey) ==
    SubSeq(fileKey, 1, RFind(fileKey, "/")) \o <<"o","u","t">> \o DotJson

\* f"{file_key}.json"
OutputKey(fileKey) == fileKey \o DotJson

\* dict.get(k, default)
Get(d, k, default) == IF k \in DOMAIN d THEN d[k] ELSE default

\* the elements of a sequence
Range(s) == {s[i] : i \in 1..Len(s)}

\* str(n) for n >= 0: the decimal digits
Digits == <<"0","1","2","3","4","5","6","7","8","9">>

RECURSIVE ToStr(_)
ToStr(n) ==
    IF n < 10 THEN <<Digits[n + 1]>>
    ELSE ToStr(n \div 10) \o <<Digits[(n % 10) + 1]>>

IsDigit(c) == \E i \in 1..10 : Digits[i] = c
DigitVal(c) == (CHOOSE i \in 1..10 : Digits[i] = c) - 1

RECURSIVE DigitsVal(_)
DigitsVal(s) ==
    IF Len(s) = 0 THEN 0
    ELSE 10 * DigitsVal(SubSeq(s, 1, Len(s) - 1)) + DigitVal(s[Len(s)])

\* the white space int() drops around the number: tab, line feed, vertical
\* tab, form feed, carriage return, space, next line (U+0085) and no-break
\* space (U+00A0).  A metadata value is the value of a response header and
\* holds no character beyond U+00FF, so the white space and the digits of
\* the rest of Unicode are left out.
Whitespace == {" ", "\t", "\n", "\r", "\f", "", "", " "}

\* str.strip()
Strip(s) ==
    LET kept == {i \in 1..Len(s) : s[i] \notin Whitespace}
    IN  IF kept = {} THEN <<>>
        ELSE SubSeq(s, CHOOSE i \in kept : \A j \in kept : i <= j,
                       CHOOSE i \in kept : \A j \in kept : j <= i)

\* the digits part of an int literal: digits, with single underscores
\* between digits
IsIntBody(b) ==
    /\ Len(b) > 0
    /\ IsDigit(b[1])
    /\ IsDigit(b[Len(b)])
    /\ \A i \in 1..Len(b) :
          \/ IsDigit(b[i])
          \/ b[i] = "_" /\ IsDigit(b[i - 1]) /\ IsDigit(b[i + 1])

\* int(t) of a str without surrounding white space: an optional sign and
\* the digits part; anything else raises ValueError.  ok = FALSE stands for
\* the raise.
ParseStripped(t) ==
    LET signed == Len(t) > 0 /\ t[1] \in {"+", "-"}
        body == IF signed THEN Tail(t) ELSE t
        value == DigitsVal(SelectSeq(body, IsDigit))
    IN  IF IsIntBody(body)
        THEN [ok |-> TRUE,
              val |-> IF signed /\ t[1] = "-" THEN 0 - value ELSE value]
        ELSE [ok |-> FALSE, val |-> 0]

\* int(s) of a str: surrounding white space is dropped, then the rest is
\* parsed (t is bound to the stripped str, which is computed once)
ParseInt(s) == CHOOSE r \in {ParseStripped(t) : t \in {Strip(s)}} : TRUE

(***************************************************************************)
(* The input bucket.  Keys are listed in the store's (byte) order.         *)
(***************************************************************************)
PromptKey == <<"d","/","p","r","o","m","p","t",".","j","s","o","n">>

AllKeys ==
    << <<"d","/">>,
       <<"d","/","a",".","p","n","g">>,
       <<"d","/","b",".","J","P","G">>,
       <<"d","/","c",".","t","x","t">>,
       PromptKey,
       <<"e","/","x",".","p","n","g">> >>

OtherKeys == Range(AllKeys) \ {PromptKey}

INPUT_BUCKET == "input-bucket"
PROMPT_TEXT == "transcribe"
EXECUTION_ARN == "arn:aws:states:execution"

\* the characters of the keys in byte order, for the order of a listing
ByteOrder ==
    <<"+", "-", ".", "/">> \o Digits \o UpperLetters \o <<"_">> \o LowerLetters

CharRank(c) == CHOOSE i \in 1..Len(ByteOrder) : ByteOrder[i] = c

RECURSIVE KeyLess(_, _)
KeyLess(a, b) ==
    IF a = <<>> THEN b # <<>>
    ELSE IF b = <<>> THEN FALSE
    ELSE IF Head(a) = Head(b) THEN KeyLess(Tail(a), Tail(b))
    ELSE CharRank(Head(a)) < CharRank(Head(b))

RECURSIVE SortKeys(_)
SortKeys(S) ==
    IF S = {} THEN <<>>
    ELSE LET least == CHOOSE k \in S : \A o \in S \ {k} : KeyLess(k, o)
         IN  <<least>> \o SortKeys(S \ {least})

\* ListObjects with the Prefix argument lost: the whole bucket is listed
ListObjectsWholeBucket(bucket, prefix) == SortKeys(bucket)

\* s3_client.list_objects_v2(Bucket, Prefix)["Contents"], as the keys
ListObjects(bucket, prefix) == SortKeys({k \in bucket : StartsWith(k, prefix)})

(***************************************************************************)
(* trigger/handler.py: the pure parts of the Batch Planner.                *)
(***************************************************************************)
\* get_file_format_and_content_type(key)[0]: ext.lower()[1:]
FileFormat(key) == Tail(Lower(SplitExt(key)))

\* IsProcessable with the extension compared as written, not lower-cased
IsProcessableCaseSensitive(key) ==
    /\ ~ (EndsWith(key, PromptJson) \/ EndsWith(key, DotJson) \/ EndsWith(key, <<"/">>))
    /\ SplitExt(key) \in Range(SUPPORTED_EXTENSIONS)

\* IsProcessable without the allow-list of extensions
IsProcessableAnyExtension(key) ==
    ~ (EndsWith(key, PromptJson) \/ EndsWith(key, DotJson) \/ EndsWith(key, <<"/">>))

\* the filter of list_files_in_directory on one listed key
IsProcessable(key) ==
    /\ ~ (EndsWith(key, PromptJson) \/ EndsWith(key, DotJson) \/ EndsWith(key, <<"/">>))
    /\ Lower(SplitExt(key)) \in Range(SUPPORTED_EXTENSIONS)

FileInfo(key) ==
    [key |-> key, format |-> FileFormat(key), content_type |-> "image"]

\* list_files_in_directory(bucket, directory_path), the listing having
\* succeeded (listOk) or raised: the exception is caught and the files
\* collected so far, none, are returned.  A response without "Contents"
\* (nothing under the prefix) raises KeyError in the loop header, caught too.
list_files_in_directory(bucket, directory_path, listOk) ==
    IF ~ listOk THEN <<>>
    ELSE LET listed == ListObjects(bucket, directory_path)
             kept == SelectSeq(listed, IsProcessable)
         IN  [i \in 1..Len(kept) |-> FileInfo(kept[i])]

\* str.replace(old, new) for one-character old and new
ReplaceChar(s, old, new) == [i \in 1..Len(s) |-> IF s[i] = old THEN new ELSE s[i]]

RecordId(key) == ReplaceChar(ReplaceChar(key, "/", "-"), ".", "-")

\* prompt_config["prompt"] raises TypeError when the configuration parsed to
\* a JSON array holding "prompt" (which passes the "prompt" in prompt_config
\* test) instead of an object
PromptLookupRaises(prompt_config) == prompt_config.kind # "dict"

create_processing_record(file_info, prompt_config, bucket) ==
    [recordId |-> RecordId(file_info.key),
     file_key |-> file_info.key,
     bucket |-> bucket,
     prompt |-> prompt_config.prompt,
     file_format |-> file_info.format,
     content_type |-> file_info.content_type]

\* create_batch_records: a file whose record creation raises is logged and
\* left out
create_batch_records(files, prompt_config, bucket) ==
    LET made == SelectSeq(files, LAMBDA f : ~ PromptLookupRaises(prompt_config))
    IN  [i \in 1..Len(made) |-> create_processing_record(made[i], prompt_config, bucket)]

\* the status_data dict of create_status_file
PlannerStatusData(directory_path, status, message, total_files, completed_files, execution_arn, now) ==
    LET base == [status |-> status,
                 message |-> message,
                 total_files |-> total_files,
                 completed_files |-> completed_files,
                 timestamp |-> now,
                 directory_path |-> directory_path]
    IN  IF execution_arn # ""
        THEN base @@ [execution_arn |-> execution_arn]
        ELSE base

(***************************************************************************)
(* State.                                                                  *)
(***************************************************************************)
VARIABLES
    upload,         \* what the upload notification and the prompt object are
    inputBucket,    \* the keys of the input bucket
    outMeta,        \* output bucket: key -> user metadata of the object
    statusBody,     \* output bucket: the body of {directory_path}_status.json
    manifestBody,   \* output bucket: the body of {directory_path}_batch_input.json
    clock,          \* datetime.now(), a logical clock
    plannerPc,      \* the Planner's position: start, triggered, status_built, done
    plannerResult,  \* what the Planner's handler returned (or "raised")
    plannerFiles,   \* the Planner's local files
    manifestPuts,   \* manifest put_object calls the Planner issued
    plannerStatusData, \* the status_data create_status_file has built
    statusPuts,     \* the status_data of each status put_object call of the Planner
    triggerCalls,   \* start_execution calls the Planner issued
    fanout,         \* the external fan-out: none, running, cancelled
    workerPc,       \* per work record: idle, get_object, converse, put_object,
                    \* write_error_file, done
    workerResult,   \* per work record: the "status" of the result returned
    workerEvent,    \* per work record: the event the invocation is given
    workerResponse, \* per work record: the response converse returned to it
    workerError,    \* per work record: the error_code of the except block entered
    workerOutcome,  \* per work record: the Metadata of the object it stored
    aggPc,          \* per Aggregator call: idle, read, listed, scanned, built,
                    \* done
    aggEvent,       \* per Aggregator call: the completion signal
    aggCurrent,     \* per Aggregator call: its local current_status
    aggKeys,        \* per Aggregator call: the listed objects yet to be read
    aggScan,        \* per Aggregator call: what its scan read and tallied
    aggTimestamp,   \* per Aggregator call: the datetime.now() of its status_data
    aggWritten,     \* per Aggregator call: the status_data it put
    aggResult,      \* per Aggregator call: the statusCode returned
    lastWriter      \* who put the status record last

vars == <<upload, inputBucket, outMeta, statusBody, manifestBody, clock,
          plannerPc, plannerResult, plannerFiles, plannerStatusData, manifestPuts,
          statusPuts, triggerCalls, fanout, workerPc, workerResult, workerEvent,
          workerResponse, workerError, workerOutcome,
          aggPc, aggEvent, aggCurrent, aggKeys, aggScan, aggTimestamp, aggWritten,
          aggResult, lastWriter>>

plannerVars == <<plannerPc, plannerResult, plannerFiles, plannerStatusData,
                 manifestPuts, statusPuts, triggerCalls>>
workerVars == <<workerPc, workerResult, workerEvent, workerResponse, workerError,
                workerOutcome>>
aggVars == <<aggPc, aggEvent, aggCurrent, aggKeys, aggScan, aggTimestamp, aggWritten,
             aggResult>>

EmptyDict == [x \in {} |-> 0]

\* the directory of the uploaded prompt configuration
Dir == DirectoryPath(PromptKey)

\* s3_client.put_object(Bucket=OUTPUT_BUCKET, Key=key, Metadata=meta)
Put(store, key, meta) == (key :> meta) @@ store

OUTPUT_BUCKET == "output-bucket"

\* the event the fan-out hands to the Processor for one work record
FanoutEvent(record) == [record |-> record, output_bucket |-> OUTPUT_BUCKET]

\* what workerResponse holds while converse has returned nothing
NoResponse == [stopReason |-> "none"]

\* the uploads whose prompt object parses and passes the 'prompt' test: a
\* JSON object with a prompt, and the JSON array ["prompt"]
ParsedUploads == {"dict", "list"}

UploadKinds ==
    {"no_output_bucket", "no_state_machine_arn", "malformed_event",
     "unreadable", "invalid_json", "no_prompt"} \cup ParsedUploads

\* json.loads of the prompt object, for the uploads that parse
PromptConfig(u) ==
    IF u = "dict" THEN [kind |-> "dict", prompt |-> PROMPT_TEXT]
    ELSE [kind |-> "list", prompt |-> ""]

(***************************************************************************)
(* trigger/handler.py: lambda_handler, for an event of one record.         *)
(***************************************************************************)
\* create_status_file, lines 177-191: the status_data is built, with the
\* time of the call; the put_object call is yet to be made
CreateStatusFile(status, message, total_files, completed_files, execution_arn) ==
    /\ plannerStatusData' = PlannerStatusData(Dir, status, message, total_files, completed_files, execution_arn, clock)
    /\ clock' = clock + 1
    /\ plannerPc' = "status_built"

\* PlannerReturns with the exception of the try block raised again after
\* the error status was written
PlannerRaisesAgain ==
    /\ plannerPc' = "done"
    /\ plannerResult' = IF Len(statusPuts') > 0
                           /\ statusPuts'[Len(statusPuts')].status = "error"
                        THEN "raised" ELSE "200"

\* the handler returns {"statusCode": 200, "body": "success"}
PlannerReturns ==
    /\ plannerPc' = "done"
    /\ plannerResult' = "200"

\* lines 24-29: a required environment variable is not set
PlannerConfigurationError ==
    /\ plannerPc = "start"
    /\ upload \in {"no_output_bucket", "no_state_machine_arn"}
    /\ plannerPc' = "done"
    /\ plannerResult' = "500"
    /\ UNCHANGED <<upload, inputBucket, outMeta, statusBody, manifestBody, clock,
                   plannerFiles, plannerStatusData, manifestPuts, statusPuts,
                   triggerCalls, fanout, workerVars, aggVars, lastWriter>>

\* lines 32-33, outside the try: the record lacks the s3 fields
PlannerMalformedEvent ==
    /\ plannerPc = "start"
    /\ upload = "malformed_event"
    /\ plannerPc' = "done"
    /\ plannerResult' = "raised"
    /\ UNCHANGED <<upload, inputBucket, outMeta, statusBody, manifestBody, clock,
                   plannerFiles, plannerStatusData, manifestPuts, statusPuts,
                   triggerCalls, fanout, workerVars, aggVars, lastWriter>>

\* lines 38-45 raise (get_object, json.loads, or the missing 'prompt'), and
\* lines 92-101 call create_status_file for the error status
PlannerPlanningFails ==
    /\ plannerPc = "start"
    /\ upload \in {"unreadable", "invalid_json", "no_prompt"}
    /\ CreateStatusFile("error", <<"Processing failed", upload>>, 0, 0, "")
    /\ UNCHANGED <<upload, inputBucket, outMeta, statusBody, manifestBody,
                   plannerResult, plannerFiles, manifestPuts, statusPuts,
                   triggerCalls, fanout, workerVars, aggVars, lastWriter>>

\* lines 53-59: nothing processable is listed (or the listing raised)
PlannerNoFiles ==
    /\ plannerPc = "start"
    /\ upload \in ParsedUploads
    /\ \E listOk \in BOOLEAN :
          LET files == list_files_in_directory(inputBucket, Dir, listOk)
          IN  /\ files = <<>>
              /\ plannerFiles' = files
    /\ CreateStatusFile("error", <<"No processable files found">>, 0, 0, "")
    /\ UNCHANGED <<upload, inputBucket, outMeta, statusBody, manifestBody,
                   plannerResult, manifestPuts, statusPuts, triggerCalls, fanout,
                   workerVars, aggVars, lastWriter>>

\* lines 61-69 with the manifest put_object raising, then lines 92-101
PlannerManifestPutFails ==
    /\ plannerPc = "start"
    /\ upload \in ParsedUploads
    /\ LET files == list_files_in_directory(inputBucket, Dir, TRUE)
       IN  /\ files # <<>>
           /\ plannerFiles' = files
    /\ manifestPuts' = manifestPuts + 1
    /\ CreateStatusFile("error", <<"Processing failed", "put_object">>, 0, 0, "")
    /\ UNCHANGED <<upload, inputBucket, outMeta, statusBody, manifestBody,
                   plannerResult, statusPuts, triggerCalls, fanout, workerVars,
                   aggVars, lastWriter>>

\* lines 61-85 with start_execution raising, then lines 92-101
PlannerTriggerFails ==
    /\ plannerPc = "start"
    /\ upload \in ParsedUploads
    /\ LET files == list_files_in_directory(inputBucket, Dir, TRUE)
       IN  /\ files # <<>>
           /\ plannerFiles' = files
           /\ manifestBody' = create_batch_records(files, PromptConfig(upload), INPUT_BUCKET)
    /\ outMeta' = Put(outMeta, BatchFileKey(Dir), EmptyDict)
    /\ manifestPuts' = manifestPuts + 1
    /\ triggerCalls' = triggerCalls + 1
    /\ CreateStatusFile("error", <<"Processing failed", "start_execution">>, 0, 0, "")
    /\ UNCHANGED <<upload, inputBucket, statusBody, plannerResult, statusPuts,
                   fanout, workerVars, aggVars, lastWriter>>

\* lines 61-88: the manifest is stored and the fan-out is started; the
\* execution runs from here on, while the Planner has yet to write the status
PlannerTrigger ==
    /\ plannerPc = "start"
    /\ upload \in ParsedUploads
    /\ LET files == list_files_in_directory(inputBucket, Dir, TRUE)
           records == create_batch_records(files, PromptConfig(upload), INPUT_BUCKET)
       IN  /\ files # <<>>
           /\ plannerFiles' = files
           /\ manifestBody' = records
           /\ workerPc' = [i \in 1..Len(records) |-> "idle"]
           /\ workerResult' = [i \in 1..Len(records) |-> "none"]
           /\ workerEvent' = [i \in 1..Len(records) |-> FanoutEvent(records[i])]
           /\ workerResponse' = [i \in 1..Len(records) |-> NoResponse]
           /\ workerError' = [i \in 1..Len(records) |-> ""]
           /\ workerOutcome' = [i \in 1..Len(records) |-> EmptyDict]
    /\ outMeta' = Put(outMeta, BatchFileKey(Dir), EmptyDict)
    /\ manifestPuts' = manifestPuts + 1
    /\ triggerCalls' = triggerCalls + 1
    /\ fanout' = "running"
    /\ plannerPc' = "triggered"
    /\ UNCHANGED <<upload, inputBucket, statusBody, clock, plannerResult,
                   plannerStatusData, statusPuts, aggVars, lastWriter>>

\* line 90: create_status_file is called for the initial status, after the
\* fan-out was started
PlannerWriteStatus ==
    /\ plannerPc = "triggered"
    /\ CreateStatusFile("in_progress", <<"Processing", Len(plannerFiles), "files">>,
                        Len(plannerFiles), 0, EXECUTION_ARN)
    /\ UNCHANGED <<upload, inputBucket, outMeta, statusBody, manifestBody,
                   plannerResult, plannerFiles, manifestPuts, statusPuts,
                   triggerCalls, fanout, workerVars, aggVars, lastWriter>>

\* create_status_file, lines 193-202, and the return of the handler: the
\* put_object call is issued; when it raises (putOk is FALSE) the exception
\* is logged and nothing is stored
PlannerPutStatus ==
    /\ plannerPc = "status_built"
    /\ statusPuts' = Append(statusPuts, plannerStatusData)
    /\ \E putOk \in BOOLEAN :
          IF putOk
          THEN /\ statusBody' = plannerStatusData
               /\ outMeta' = Put(outMeta, StatusKey(Dir), EmptyDict)
               /\ lastWriter' = <<"planner">>
          ELSE UNCHANGED <<statusBody, outMeta, lastWriter>>
    /\ PlannerReturns
    /\ UNCHANGED <<upload, inputBucket, manifestBody, clock, plannerFiles,
                   plannerStatusData, manifestPuts, triggerCalls, fanout,
                   workerVars, aggVars>>

(***************************************************************************)
(* worker/handler.py: the Per-File Processor.  JSON values of the model    *)
(* response carry their Python type: [t |-> "dict" | "list" | "str", v].   *)
(***************************************************************************)
TOOL_NAME == "provide_exact_transcription"

JStr(x) == [t |-> "str", v |-> x]
JList(x) == [t |-> "list", v |-> x]
JDict(x) == [t |-> "dict", v |-> x]

ToolUseBlock(name, input) == [toolUse |-> [name |-> name, input |-> input]]

ToolResponse(input) ==
    [stopReason |-> "tool_use",
     output |-> [message |-> [content |-> <<ToolUseBlock(TOOL_NAME, input)>>]]]

\* the responses of the inference capability the model draws from
ModelResponses ==
    { ToolResponse(JDict([transcribed_text |-> JStr("text"),
                          detected_languages |-> JList(<<"en">>)])),
      ToolResponse(JDict([transcribed_text |-> JStr("text")])),
      ToolResponse(JDict([detected_languages |-> JList(<<"en">>)])),
      ToolResponse(JDict([transcribed_text |-> JStr("text"),
                          detected_languages |-> JStr("en")])),
      ToolResponse(JStr("text")),
      [stopReason |-> "end_turn",
       output |-> [message |-> [content |-> <<[text |-> "sorry"]>>]]],
      [stopReason |-> "tool_use",
       output |-> [message |-> [content |-> <<[text |-> "sorry"]>>]]],
      [stopReason |-> "tool_use",
       output |-> [message |-> [content |->
                     <<ToolUseBlock("other_tool", JDict(EmptyDict))>>]]],
      [stopReason |-> "tool_use"] }

\* the responses the pipeline is followed on: a complete one, one without
\* detected_languages, one without a use of the tool
PipelineResponses ==
    { ToolResponse(JDict([transcribed_text |-> JStr("text"),
                          detected_languages |-> JList(<<"en">>)])),
      ToolResponse(JDict([transcribed_text |-> JStr("text")])),
      [stopReason |-> "end_turn",
       output |-> [message |-> [content |-> <<[text |-> "sorry"]>>]]] }

\* extract_tool_response: [ok |-> FALSE] stands for the ValueError raised
RECURSIVE ExtractFromBlocks(_, _)
ExtractFromBlocks(blocks, expected_tool_name) ==
    IF blocks = <<>> THEN [ok |-> FALSE, data |-> JDict(EmptyDict)]
    ELSE IF "toolUse" \in DOMAIN Head(blocks)
    THEN LET tool_use == Head(blocks).toolUse
             tool_input == tool_use.input
         IN  IF tool_use.name = expected_tool_name
             THEN IF /\ tool_input.t = "dict"
                     /\ "transcribed_text" \in DOMAIN tool_input.v
                     /\ "detected_languages" \notin DOMAIN tool_input.v
                  THEN [ok |-> TRUE,
                        data |-> JDict(tool_input.v @@
                                       [detected_languages |-> JList(<<"en">>)])]
                  ELSE [ok |-> TRUE, data |-> tool_input]
             ELSE [ok |-> FALSE, data |-> JDict(EmptyDict)]
    ELSE ExtractFromBlocks(Tail(blocks), expected_tool_name)

extract_tool_response(response, expected_tool_name) ==
    IF Get(response, "stopReason", "") # "tool_use"
    THEN [ok |-> FALSE, data |-> JDict(EmptyDict)]
    ELSE IF "output" \notin DOMAIN response
    THEN [ok |-> FALSE, data |-> JDict(EmptyDict)]
    ELSE ExtractFromBlocks(response.output.message.content, expected_tool_name)

\* validate_transcription_data: FALSE stands for the ValueError raised
validate_transcription_data(data) ==
    /\ data.t = "dict"
    /\ "transcribed_text" \in DOMAIN data.v
    /\ "detected_languages" \in DOMAIN data.v
    /\ data.v["detected_languages"].t = "list"

\* response.get('usage', {}): the token counts the capability reports
Usages == {[inputTokens |-> 10, outputTokens |-> 5],
           [inputTokens |-> 0, outputTokens |-> 0]}

\* the Metadata of the success put_object, lines 296-303
SuccessMetadata(record_id, input_tokens, output_tokens) ==
    [x \in {"record-id", "processing-status", "input-tokens", "output-tokens",
            "total-tokens", "tool-name"} |->
        CASE x = "record-id" -> record_id
          [] x = "processing-status" -> "success"
          [] x = "input-tokens" -> ToStr(input_tokens)
          [] x = "output-tokens" -> ToStr(output_tokens)
          [] x = "total-tokens" -> ToStr(input_tokens + output_tokens)
          [] x = "tool-name" -> TOOL_NAME]

\* the Metadata of write_error_file, lines 373-380
ErrorMetadata(record_id, error_code) ==
    [x \in {"record-id", "processing-status", "error-code", "input-tokens",
            "output-tokens", "total-tokens"} |->
        CASE x = "record-id" -> record_id
          [] x = "processing-status" -> "error"
          [] x = "error-code" -> error_code
          [] x = "input-tokens" -> <<"0">>
          [] x = "output-tokens" -> <<"0">>
          [] x = "total-tokens" -> <<"0">>]

\* write_error_file on the output bucket: a raising put_object is logged
write_error_file(store, file_key, record_id, error_code, errPutOk) ==
    IF errPutOk
    THEN Put(store, OutputKey(file_key), ErrorMetadata(record_id, error_code))
    ELSE store

\* e.response['Error']['Code'] of a ClientError of the store or the capability
CLIENT_ERROR_CODE == "ThrottlingException"

\* the default of record.get('file_key', 'unknown') in the except blocks
UNKNOWN == <<"u","n","k","n","o","w","n">>

\* the error_code of the except block that catches what was raised: the
\* blocks are tried in the order ValueError (line 315), ClientError (line
\* 332), Exception (line 344)
ErrorCodeOf(raised) ==
    CASE raised = "ValueError" -> "ToolResponseValidationError"
      [] raised = "ClientError" -> CLIENT_ERROR_CODE
      [] OTHER -> "UnexpectedError"

\* the fields of the record lines 213-216 subscript
RecordFields == {"file_key", "bucket", "recordId", "prompt"}

\* response.get('usage', {}) with the defaults of lines 279-280
ResponseUsage(response) ==
    LET usage == Get(response, "usage", EmptyDict)
    IN  [inputTokens |-> Get(usage, "inputTokens", 0),
         outputTokens |-> Get(usage, "outputTokens", 0)]

\* the invocation enters an except block: error_code is kept for
\* write_error_file and the result
ProcessRaises(i, raised) ==
    /\ workerError' = [workerError EXCEPT ![i] = ErrorCodeOf(raised)]
    /\ workerPc' = [workerPc EXCEPT ![i] = "write_error_file"]

\* lines 206-223: invocation i of the fan-out is called and comes to its
\* get_object call.  event['record'] or event['output_bucket'] raising
\* KeyError is caught at line 344, where the handler reads the local it
\* never bound (record at line 345, output_bucket at line 351): that
\* UnboundLocalError leaves the handler.  A field of the record missing is
\* a KeyError caught at line 344.
ProcessCall(i) ==
    /\ fanout = "running"
    /\ workerPc[i] = "idle"
    /\ LET event == workerEvent[i]
       IN  IF "record" \notin DOMAIN event \/ "output_bucket" \notin DOMAIN event
           THEN /\ workerPc' = [workerPc EXCEPT ![i] = "done"]
                /\ workerResult' = [workerResult EXCEPT ![i] = "raised"]
                /\ UNCHANGED workerError
           ELSE IF ~ (RecordFields \subseteq DOMAIN event.record)
           THEN /\ ProcessRaises(i, "KeyError")
                /\ UNCHANGED workerResult
           ELSE /\ workerPc' = [workerPc EXCEPT ![i] = "get_object"]
                /\ UNCHANGED <<workerResult, workerError>>
    /\ UNCHANGED <<upload, inputBucket, outMeta, statusBody, manifestBody, clock,
                   plannerVars, fanout, workerEvent, workerResponse, workerOutcome,
                   aggVars, lastWriter>>

\* lines 223-254: get_object returns or raises (ClientError, or another
\* exception of the client), then the image is converted, which may raise
\* ValueError (a resize to an empty size) or another exception (bytes that
\* are no image)
ProcessGetObject(i) ==
    /\ workerPc[i] = "get_object"
    /\ \E raised \in {"none", "ClientError", "ValueError", "Exception"} :
          IF raised = "none"
          THEN /\ workerPc' = [workerPc EXCEPT ![i] = "converse"]
               /\ UNCHANGED workerError
          ELSE ProcessRaises(i, raised)
    /\ UNCHANGED <<upload, inputBucket, outMeta, statusBody, manifestBody, clock,
                   plannerVars, fanout, workerResult, workerEvent, workerResponse,
                   workerOutcome, aggVars, lastWriter>>

\* lines 257-286: converse raises, or returns a response (of responses),
\* which is then extracted and validated
ProcessConverseOn(i, responses) ==
    /\ workerPc[i] = "converse"
    /\ \/ /\ \E raised \in {"ClientError", "Exception"} : ProcessRaises(i, raised)
          /\ UNCHANGED workerResponse
       \/ \E model \in responses, usage \in Usages :
             LET response == model @@ [usage |-> usage]
                 extracted == extract_tool_response(response, TOOL_NAME)
             IN  /\ workerResponse' = [workerResponse EXCEPT ![i] = response]
                 /\ IF extracted.ok /\ validate_transcription_data(extracted.data)
                    THEN /\ workerPc' = [workerPc EXCEPT ![i] = "put_object"]
                         /\ UNCHANGED workerError
                    ELSE ProcessRaises(i, "ValueError")
    /\ UNCHANGED <<upload, inputBucket, outMeta, statusBody, manifestBody, clock,
                   plannerVars, fanout, workerResult, workerEvent, workerOutcome,
                   aggVars, lastWriter>>

\* lines 289-313: the success put_object goes through and the handler
\* returns, or it raises (ClientError, or another exception of the client)
ProcessPutObject(i) ==
    /\ workerPc[i] = "put_object"
    /\ \E raised \in {"none", "ClientError", "Exception"} :
          IF raised = "none"
          THEN LET record == workerEvent[i].record
                   usage == ResponseUsage(workerResponse[i])
                   meta == SuccessMetadata(record.recordId, usage.inputTokens,
                                           usage.outputTokens)
               IN  /\ outMeta' = Put(outMeta, OutputKey(record.file_key), meta)
                   /\ workerOutcome' = [workerOutcome EXCEPT ![i] = meta]
                   /\ workerResult' = [workerResult EXCEPT ![i] = "success"]
                   /\ workerPc' = [workerPc EXCEPT ![i] = "done"]
                   /\ UNCHANGED workerError
          ELSE /\ ProcessRaises(i, raised)
               /\ UNCHANGED <<outMeta, workerOutcome, workerResult>>
    /\ UNCHANGED <<upload, inputBucket, statusBody, manifestBody, clock,
                   plannerVars, fanout, workerEvent, workerResponse, aggVars,
                   lastWriter>>

\* the except blocks, lines 315-352: write_error_file, whose put_object may
\* raise (errPutOk is FALSE), then the error result is returned
ProcessWriteError(i) ==
    /\ workerPc[i] = "write_error_file"
    /\ \E errPutOk \in BOOLEAN :
          LET record == workerEvent[i].record
              file_key == Get(record, "file_key", UNKNOWN)
              record_id == Get(record, "recordId", UNKNOWN)
          IN  /\ outMeta' = write_error_file(outMeta, file_key, record_id,
                                             workerError[i], errPutOk)
              /\ workerOutcome' = [workerOutcome EXCEPT ![i] =
                    IF errPutOk THEN ErrorMetadata(record_id, workerError[i])
                    ELSE EmptyDict]
    /\ workerResult' = [workerResult EXCEPT ![i] = "error"]
    /\ workerPc' = [workerPc EXCEPT ![i] = "done"]
    /\ UNCHANGED <<upload, inputBucket, statusBody, manifestBody, clock,
                   plannerVars, fanout, workerEvent, workerResponse, workerError,
                   aggVars, lastWriter>>

\* one Processor invocation of the fan-out, for work record i of the
\* manifest: a step runs it from one client call to the next
ProcessOn(i, responses) ==
    \/ ProcessCall(i)
    \/ ProcessGetObject(i)
    \/ ProcessConverseOn(i, responses)
    \/ ProcessPutObject(i)
    \/ ProcessWriteError(i)

Process(i) == ProcessOn(i, ModelResponses)

\* the barrier of the fan-out: every Processor invocation has returned
AllReturned ==
    /\ fanout = "running"
    /\ \A i \in DOMAIN workerPc : workerPc[i] = "done"

(***************************************************************************)
(* status/handler.py: the Status Aggregator.                               *)
(***************************************************************************)
\* list_objects_v2(Bucket=OUTPUT_BUCKET, Prefix=directory_path), as the keys
ListOutput(store, directory_path) ==
    SortKeys({k \in DOMAIN store : StartsWith(k, directory_path)})

\* line 56: the objects of the listing whose metadata is read
IsScanned(key) == EndsWith(key, DotJson) /\ ~ EndsWith(key, StatusSuffix)

\* int(metadata.get(field, 0))
MetaInt(metadata, field) ==
    IF field \in DOMAIN metadata THEN ParseInt(metadata[field])
    ELSE [ok |-> TRUE, val |-> 0]

ZeroTally ==
    [input_tokens |-> 0, output_tokens |-> 0, total_tokens |-> 0,
     successful_files |-> 0, failed_files |-> 0, heads |-> {}, skipped |-> {},
     listed |-> FALSE]

\* TallyObject with the elif of line 74 lost: an error artifact is not counted
TallyObjectSuccessOnly(acc, key, metadata, headOk) ==
    LET pin == MetaInt(metadata, "input-tokens")
        pout == MetaInt(metadata, "output-tokens")
        ptot == MetaInt(metadata, "total-tokens")
        ps == Get(metadata, "processing-status", "")
        read == [acc EXCEPT !.heads = @ \cup {key}]
        a3 == [read EXCEPT !.input_tokens = @ + pin.val,
                           !.output_tokens = @ + pout.val,
                           !.total_tokens = @ + ptot.val]
    IN  IF ~ headOk THEN [acc EXCEPT !.skipped = @ \cup {key}]
        ELSE IF ~ (pin.ok /\ pout.ok /\ ptot.ok) THEN read
        ELSE IF ps = "success" THEN [a3 EXCEPT !.successful_files = @ + 1]
        ELSE a3

\* lines 57-78 for one listed object: headOk is whether head_object returns;
\* an int() that raises ends the object's turn with the sums added so far
TallyObject(acc, key, metadata, headOk) ==
    LET pin == MetaInt(metadata, "input-tokens")
        pout == MetaInt(metadata, "output-tokens")
        ptot == MetaInt(metadata, "total-tokens")
        ps == Get(metadata, "processing-status", "")
        read == [acc EXCEPT !.heads = @ \cup {key}]
        a1 == [read EXCEPT !.input_tokens = @ + pin.val]
        a2 == [a1 EXCEPT !.output_tokens = @ + pout.val]
        a3 == [a2 EXCEPT !.total_tokens = @ + ptot.val]
    IN  IF ~ headOk THEN [acc EXCEPT !.skipped = @ \cup {key}]
        ELSE IF ~ pin.ok THEN read
        ELSE IF ~ pout.ok THEN a1
        ELSE IF ~ ptot.ok THEN a2
        ELSE IF ps = "success" THEN [a3 EXCEPT !.successful_files = @ + 1]
        ELSE IF ps = "error" THEN [a3 EXCEPT !.failed_files = @ + 1]
        ELSE a3

\* Scans whatever the status of the completion signal
ScansWhateverStatus(status) == TRUE

\* line 46: the artifacts are listed and their metadata read
Scans(status) == status = "completed"

\* lines 54-56: the objects of the response whose head_object the loop
\* calls, in the order of the listing
ScanKeys(store, directory_path) ==
    SelectSeq(ListOutput(store, directory_path), IsScanned)

\* RestKeys leaving the loop at the first head_object that raises
RestKeysUntilFailure(keys, headOk) == IF headOk THEN Tail(keys) ELSE <<>>

\* lines 55-78: the except of line 77 is inside the loop, so the loop goes
\* on to the next object whether or not head_object returned
RestKeys(keys, headOk) == Tail(keys)

\* CompletedFiles adding to the count it read instead of setting it
CompletedFilesAccumulated(status, current_status) ==
    IF status = "completed"
    THEN Get(current_status, "completed_files", 0) + Get(current_status, "total_files", 0)
    ELSE Get(current_status, "completed_files", 0)

\* CompletedFiles taking total_files whatever the status of the signal
CompletedFilesAlwaysTotal(status, current_status) ==
    Get(current_status, "total_files", 0)

\* line 91
CompletedFiles(status, current_status) ==
    IF status = "completed"
    THEN Get(current_status, "total_files", 0)
    ELSE Get(current_status, "completed_files", 0)

\* HasResults without the test that an artifact was counted
HasResultsWhenCompleted(status, tally) == status = "completed"

\* line 97: the detailed results are added
HasResults(status, tally) ==
    status = "completed" /\ (tally.successful_files > 0 \/ tally.failed_files > 0)

\* AggStatusData leaving the status of the record it read in place
AggStatusDataKeepsStatus(event, current_status, tally, now) ==
    [status |-> Get(current_status, "status", "pending"),
     message |-> event.message,
     total_files |-> Get(current_status, "total_files", 0),
     completed_files |-> Get(current_status, "completed_files", 0),
     timestamp |-> now,
     directory_path |-> event.directory_path]

\* lines 87-113: the status_data dict
AggStatusData(event, current_status, tally, now) ==
    LET base == [status |-> event.status,
                 message |-> event.message,
                 total_files |-> Get(current_status, "total_files", 0),
                 completed_files |-> CompletedFiles(event.status, current_status),
                 timestamp |-> now,
                 directory_path |-> event.directory_path]
        results == IF HasResults(event.status, tally)
                   THEN [successful_files |-> tally.successful_files,
                         failed_files |-> tally.failed_files]
                   ELSE EmptyDict
        usage == IF HasResults(event.status, tally) /\ tally.total_tokens > 0
                 THEN [token_usage |->
                          [input_tokens |-> tally.input_tokens,
                           output_tokens |-> tally.output_tokens,
                           total_tokens |-> tally.total_tokens]]
                 ELSE EmptyDict
        arn == IF Get(event, "execution_arn", "") # ""
               THEN [execution_arn |-> event.execution_arn]
               ELSE EmptyDict
        error == IF Get(event, "error", "") # ""
                 THEN [error |-> event.error]
                 ELSE EmptyDict
    IN  base @@ results @@ usage @@ arn @@ error

\* the completion signals of the fan-out
CompletionSignals ==
    { [directory_path |-> Dir, status |-> "completed",
       message |-> <<"Processing completed">>, execution_arn |-> EXECUTION_ARN],
      [directory_path |-> Dir, status |-> "error",
       message |-> <<"Processing failed">>, execution_arn |-> EXECUTION_ARN,
       error |-> "States.TaskFailed"] }

\* the Aggregator calls of a directory: the call of the completion signal
\* and a repeated call
AggIds == {1, 2}

\* lines 23-37 of call a, on one of events: the event is read, then the
\* current status (readOk, one of oks, is whether get_object returns a body)
AggReadOn(a, events, oks) ==
    /\ aggPc[a] = "idle"
    /\ \E event \in events, readOk \in oks :
          /\ aggEvent' = [aggEvent EXCEPT ![a] = event]
          /\ aggCurrent' = [aggCurrent EXCEPT ![a] =
                IF readOk /\ StatusKey(event.directory_path) \in DOMAIN outMeta
                THEN statusBody ELSE EmptyDict]
    /\ aggPc' = [aggPc EXCEPT ![a] = "read"]
    /\ UNCHANGED <<upload, inputBucket, outMeta, statusBody, manifestBody, clock,
                   plannerVars, fanout, workerVars, aggKeys, aggScan, aggTimestamp,
                   aggWritten, aggResult, lastWriter>>

\* A repeated call carries the completion signal of the first and starts
\* after it returned.
AggRead(a) ==
    /\ AllReturned
    /\ \A b \in AggIds : b < a => aggPc[b] = "done"
    /\ AggReadOn(a, IF a = 1 THEN CompletionSignals ELSE {aggEvent[1]}, BOOLEAN)

\* A call that starts after the earlier calls returned, on a completion
\* signal of its own.
AggReadAgainOn(a, oks) ==
    /\ AllReturned
    /\ \A b \in AggIds : b < a => aggPc[b] = "done"
    /\ AggReadOn(a, CompletionSignals, oks)

\* A call that starts whether or not another call for the directory is
\* under way, on a completion signal of its own.
AggReadConcurrently(a) ==
    /\ AllReturned
    /\ AggReadOn(a, CompletionSignals, BOOLEAN)

\* The batch is cancelled upstream: the invocations that have not run never
\* do.
Cancel ==
    /\ fanout = "running"
    /\ fanout' = "cancelled"
    /\ UNCHANGED <<upload, inputBucket, outMeta, statusBody, manifestBody, clock,
                   plannerVars, workerVars, aggVars, lastWriter>>

\* The call made for a cancelled batch, on a completion signal.
AggReadAfterCancel(a) ==
    /\ fanout = "cancelled"
    /\ AggReadOn(a, CompletionSignals, BOOLEAN)

\* lines 46-54 of call a: list_objects_v2 is called; a listing that raises
\* (listOk, one of oks, is FALSE) is caught at line 83 and leaves the tallies
\* at zero
AggListOn(a, oks) ==
    /\ aggPc[a] = "read"
    /\ Scans(aggEvent[a].status)
    /\ \E listOk \in oks :
          LET keys == IF listOk
                      THEN ScanKeys(outMeta, aggEvent[a].directory_path)
                      ELSE <<>>
          IN  /\ aggKeys' = [aggKeys EXCEPT ![a] = keys]
              /\ aggScan' = [aggScan EXCEPT ![a] = [ZeroTally EXCEPT !.listed = listOk]]
              /\ aggPc' = [aggPc EXCEPT ![a] =
                              IF keys = <<>> THEN "scanned" ELSE "listed"]
    /\ UNCHANGED <<upload, inputBucket, outMeta, statusBody, manifestBody, clock,
                   plannerVars, fanout, workerVars, aggEvent, aggCurrent,
                   aggTimestamp, aggWritten, aggResult, lastWriter>>

\* lines 55-78 of call a, for the next object of the listing: head_object is
\* called (headOk, one of oks, is whether it returns) and the metadata is
\* tallied
AggHeadOn(a, oks) ==
    /\ aggPc[a] = "listed"
    /\ \E headOk \in oks :
          LET key == Head(aggKeys[a])
              rest == RestKeys(aggKeys[a], headOk)
          IN  /\ headOk \/ Cardinality(aggScan[a].skipped) < MaxUnreadable
              /\ aggScan' = [aggScan EXCEPT ![a] =
                                TallyObject(@, key, outMeta[key], headOk)]
              /\ aggKeys' = [aggKeys EXCEPT ![a] = rest]
              /\ aggPc' = [aggPc EXCEPT ![a] =
                              IF rest = <<>> THEN "scanned" ELSE "listed"]
    /\ UNCHANGED <<upload, inputBucket, outMeta, statusBody, manifestBody, clock,
                   plannerVars, fanout, workerVars, aggEvent, aggCurrent,
                   aggTimestamp, aggWritten, aggResult, lastWriter>>

\* lines 86-113 of call a, once the scan is over or when line 46 skips it:
\* the status_data is built, with the time of the call
AggBuild(a) ==
    /\ \/ aggPc[a] = "scanned"
       \/ aggPc[a] = "read" /\ ~ Scans(aggEvent[a].status)
    /\ aggTimestamp' = [aggTimestamp EXCEPT ![a] = clock]
    /\ clock' = clock + 1
    /\ aggPc' = [aggPc EXCEPT ![a] = "built"]
    /\ UNCHANGED <<upload, inputBucket, outMeta, statusBody, manifestBody,
                   plannerVars, fanout, workerVars, aggEvent, aggCurrent, aggKeys,
                   aggScan, aggWritten, aggResult, lastWriter>>

\* lines 115-138 of call a: the status_data is put; a put_object that
\* raises (putOk, one of oks, is FALSE) is caught at line 133 and the call
\* returns 500
AggWriteOn(a, oks) ==
    /\ aggPc[a] = "built"
    /\ \E putOk \in oks :
          LET data == AggStatusData(aggEvent[a], aggCurrent[a], aggScan[a],
                                    aggTimestamp[a])
          IN  IF putOk
              THEN /\ statusBody' = data
                   /\ outMeta' = Put(outMeta, StatusKey(aggEvent[a].directory_path),
                                     EmptyDict)
                   /\ aggWritten' = [aggWritten EXCEPT ![a] = data]
                   /\ aggResult' = [aggResult EXCEPT ![a] = "200"]
                   /\ lastWriter' = <<"aggregator", a>>
              ELSE /\ aggResult' = [aggResult EXCEPT ![a] = "500"]
                   /\ UNCHANGED <<statusBody, outMeta, aggWritten, lastWriter>>
    /\ aggPc' = [aggPc EXCEPT ![a] = "done"]
    /\ UNCHANGED <<upload, inputBucket, manifestBody, clock, plannerVars, fanout,
                   workerVars, aggEvent, aggCurrent, aggKeys, aggScan, aggTimestamp>>

\* the steps of call a after its read, the client calls answering as oks
AggStepsOn(a, oks) ==
    AggListOn(a, oks) \/ AggHeadOn(a, oks) \/ AggBuild(a) \/ AggWriteOn(a, oks)

AggList(a) == AggListOn(a, BOOLEAN)
AggHead(a) == AggHeadOn(a, BOOLEAN)
AggWrite(a) == AggWriteOn(a, BOOLEAN)
AggSteps(a) == AggStepsOn(a, BOOLEAN)

(***************************************************************************)
(* The pipeline: one upload, the fan-out it starts, the Aggregator calls.  *)
(***************************************************************************)
\* the state before the upload notification is handled, the input bucket
\* holding the prompt configuration and at most MaxKeys objects of keys
InitOver(keys) ==
    /\ upload \in UploadKinds
    /\ inputBucket \in {S \cup {PromptKey} :
                          S \in {T \in SUBSET keys : Cardinality(T) <= MaxKeys}}
    /\ outMeta = EmptyDict
    /\ statusBody = EmptyDict
    /\ manifestBody = <<>>
    /\ clock = 0
    /\ plannerPc = "start"
    /\ plannerResult = "none"
    /\ plannerFiles = <<>>
    /\ plannerStatusData = EmptyDict
    /\ manifestPuts = 0
    /\ statusPuts = <<>>
    /\ triggerCalls = 0
    /\ fanout = "none"
    /\ workerPc = <<>>
    /\ workerResult = <<>>
    /\ workerEvent = <<>>
    /\ workerResponse = <<>>
    /\ workerError = <<>>
    /\ workerOutcome = <<>>
    /\ aggPc = [a \in AggIds |-> "idle"]
    /\ aggEvent = [a \in AggIds |-> EmptyDict]
    /\ aggCurrent = [a \in AggIds |-> EmptyDict]
    /\ aggKeys = [a \in AggIds |-> <<>>]
    /\ aggScan = [a \in AggIds |-> ZeroTally]
    /\ aggTimestamp = [a \in AggIds |-> 0]
    /\ aggWritten = [a \in AggIds |-> EmptyDict]
    /\ aggResult = [a \in AggIds |-> "none"]
    /\ lastWriter = <<"none">>

\* the pipeline is followed for every upload but the array configuration,
\* which starts a fan-out of no invocation and is followed in the Planner
\* alone
Init == InitOver(OtherKeys) /\ upload # "list"

Planner ==
    \/ PlannerConfigurationError
    \/ PlannerMalformedEvent
    \/ PlannerPlanningFails
    \/ PlannerNoFiles
    \/ PlannerManifestPutFails
    \/ PlannerTriggerFails
    \/ PlannerTrigger
    \/ PlannerWriteStatus
    \/ PlannerPutStatus

\* the invocations of the pipeline
Processor == \E i \in DOMAIN workerPc : ProcessOn(i, PipelineResponses)

\* the Aggregator calls for the directory: the handler is invoked after the
\* barrier and, once it has returned, may be invoked again on a completion
\* signal of its own.  In the pipeline the store answers the Aggregator's
\* calls (a status record not yet written is still read as absent); the
\* calls that raise are followed in SpecAgg and calls under way at once in
\* SpecAggRace.
Aggregator == \E a \in AggIds : AggReadAgainOn(a, {TRUE}) \/ AggStepsOn(a, {TRUE})

Next == Planner \/ Processor \/ Aggregator

Spec == Init /\ [][Next]_vars

(***************************************************************************)
(* The Aggregator alone, over an output prefix holding any objects.        *)
(***************************************************************************)
ArtifactKeys ==
    { OutputKey(<<"d","/","a",".","p","n","g">>),
      OutputKey(<<"d","/","b",".","J","P","G">>) }

\* the user metadata an object of the prefix may carry
MetaUniverse ==
    { SuccessMetadata(<<"r">>, 10, 5),
      ErrorMetadata(<<"r">>, "UnexpectedError"),
      [x \in {"processing-status", "input-tokens", "output-tokens"} |->
          CASE x = "processing-status" -> "success"
            [] x = "input-tokens" -> <<"1","0">>
            [] x = "output-tokens" -> <<"5">>],
      [x \in {"processing-status", "input-tokens", "output-tokens", "total-tokens"} |->
          CASE x = "processing-status" -> "success"
            [] x = "input-tokens" -> <<"1","_","0">>
            [] x = "output-tokens" -> <<"n","/","a">>
            [] x = "total-tokens" -> <<"1","5">>],
      EmptyDict }

\* the status records the prefix may hold before the Aggregator runs
PriorRecords ==
    { EmptyDict,
      PlannerStatusData(Dir, "in_progress", <<"Processing", 2, "files">>, 2, 0,
                        EXECUTION_ARN, 0),
      PlannerStatusData(Dir, "error", <<"No processable files found">>, 0, 0, "", 0) }

InitAgg ==
    /\ upload = "dict"
    /\ inputBucket = {PromptKey}
    /\ \E D \in SUBSET ArtifactKeys :
       \E artifacts \in [D -> MetaUniverse] :
       \E withManifest \in BOOLEAN :
       \E prior \in PriorRecords :
          /\ statusBody = prior
          /\ plannerStatusData = prior
          /\ statusPuts = IF prior = EmptyDict THEN <<>> ELSE <<prior>>
          /\ outMeta = (IF prior = EmptyDict THEN EmptyDict
                        ELSE (StatusKey(Dir) :> EmptyDict))
                       @@ (IF withManifest THEN (BatchFileKey(Dir) :> EmptyDict)
                           ELSE EmptyDict)
                       @@ artifacts
    /\ manifestBody = <<>>
    /\ clock = 1
    /\ plannerPc = "done"
    /\ plannerResult = "200"
    /\ plannerFiles = <<>>
    /\ manifestPuts = 0
    /\ triggerCalls = 0
    /\ fanout = "running"
    /\ workerPc = <<>>
    /\ workerResult = <<>>
    /\ workerEvent = <<>>
    /\ workerResponse = <<>>
    /\ workerError = <<>>
    /\ workerOutcome = <<>>
    /\ aggPc = [a \in AggIds |-> "idle"]
    /\ aggEvent = [a \in AggIds |-> EmptyDict]
    /\ aggCurrent = [a \in AggIds |-> EmptyDict]
    /\ aggKeys = [a \in AggIds |-> <<>>]
    /\ aggScan = [a \in AggIds |-> ZeroTally]
    /\ aggTimestamp = [a \in AggIds |-> 0]
    /\ aggWritten = [a \in AggIds |-> EmptyDict]
    /\ aggResult = [a \in AggIds |-> "none"]
    /\ lastWriter = <<"none">>

NextAgg == \E a \in AggIds : AggRead(a) \/ AggSteps(a)

SpecAgg == InitAgg /\ [][NextAgg]_vars

\* two Aggregator calls for the directory whose steps interleave
NextAggRace ==
    \E a \in AggIds : AggReadConcurrently(a) \/ AggSteps(a)

SpecAggRace == InitAgg /\ [][NextAggRace]_vars

\* a call that has read the current status runs on to its put_object and
\* returns
LiveSpecAgg ==
    SpecAgg /\ \A a \in AggIds : /\ WF_vars(AggList(a))
                               /\ WF_vars(AggHead(a))
                               /\ WF_vars(AggBuild(a))
                               /\ WF_vars(AggWrite(a))

(***************************************************************************)
(* The Planner alone, over the keys of the pipeline and keys that differ   *)
(* only in their separators.                                               *)
(***************************************************************************)
PlanKeys ==
    { <<"d","/","a","/","b",".","p","n","g">>,
      <<"d","/","a","-","b",".","p","n","g">>,
      <<"d","/","a",".","b",".","p","n","g">>,
      <<"d","/","a",".","p","n","g">>,
      <<"d","/","c",".","t","x","t">> } \cup OtherKeys

InitPlan == InitOver(PlanKeys)

NextPlan == Planner

SpecPlan == InitPlan /\ [][NextPlan]_vars

(***************************************************************************)
(* The Processor alone, on any event: the Planner has returned for a       *)
(* directory of two images and each invocation is handed an event that may *)
(* lack fields.                                                            *)
(***************************************************************************)
\* the events an invocation for a work record may be handed: the event of
\* the fan-out, one without 'record', one without 'output_bucket', and one
\* whose record lacks 'prompt'
WorkerEvents(record) ==
    { FanoutEvent(record),
      [output_bucket |-> OUTPUT_BUCKET],
      [record |-> record],
      FanoutEvent([k \in DOMAIN record \ {"prompt"} |-> record[k]]) }

InitWorker ==
    /\ upload = "dict"
    /\ inputBucket = {PromptKey, AllKeys[2], AllKeys[3]}
    /\ LET files == list_files_in_directory(inputBucket, Dir, TRUE)
           records == create_batch_records(files, PromptConfig(upload), INPUT_BUCKET)
           data == PlannerStatusData(Dir, "in_progress",
                                     <<"Processing", Len(files), "files">>,
                                     Len(files), 0, EXECUTION_ARN, 0)
       IN  /\ plannerFiles = files
           /\ plannerStatusData = data
           /\ manifestBody = records
           /\ statusBody = data
           /\ statusPuts = <<data>>
           /\ workerPc = [i \in 1..Len(records) |-> "idle"]
           /\ workerResult = [i \in 1..Len(records) |-> "none"]
           /\ workerEvent \in {e \in [1..Len(records) -> UNION {WorkerEvents(records[i]) : i \in 1..Len(records)}] :
                                  \A i \in 1..Len(records) : e[i] \in WorkerEvents(records[i])}
           /\ workerResponse = [i \in 1..Len(records) |-> NoResponse]
           /\ workerError = [i \in 1..Len(records) |-> ""]
           /\ workerOutcome = [i \in 1..Len(records) |-> EmptyDict]
    /\ outMeta = Put(Put(EmptyDict, BatchFileKey(Dir), EmptyDict), StatusKey(Dir), EmptyDict)
    /\ clock = 1
    /\ plannerPc = "done"
    /\ plannerResult = "200"
    /\ manifestPuts = 1
    /\ triggerCalls = 1
    /\ fanout = "running"
    /\ aggPc = [a \in AggIds |-> "idle"]
    /\ aggEvent = [a \in AggIds |-> EmptyDict]
    /\ aggCurrent = [a \in AggIds |-> EmptyDict]
    /\ aggKeys = [a \in AggIds |-> <<>>]
    /\ aggScan = [a \in AggIds |-> ZeroTally]
    /\ aggTimestamp = [a \in AggIds |-> 0]
    /\ aggWritten = [a \in AggIds |-> EmptyDict]
    /\ aggResult = [a \in AggIds |-> "none"]
    /\ lastWriter = <<"planner">>

NextWorker == \E i \in DOMAIN workerPc : Process(i)

SpecWorker == InitWorker /\ [][NextWorker]_vars

(***************************************************************************)
(* A batch cancelled upstream: the invocations run in any order until the  *)
(* cancellation, then the Aggregator is called once.                       *)
(***************************************************************************)
NextCancel ==
    \/ \E i \in DOMAIN workerPc : Process(i)
    \/ Cancel
    \/ AggReadAfterCancel(1)
    \/ AggSteps(1)

SpecCancel == InitWorker /\ [][NextCancel]_vars

(***************************************************************************)
(* Properties.                                                             *)
(***************************************************************************)
\* the keys of AllKeys under d/ that are images of a supported format
ProcessableUnderDir ==
    { <<"d","/","a",".","p","n","g">>, <<"d","/","b",".","J","P","G">> }

\* N: the number of processable files of the directory
NumProcessable == Cardinality(inputBucket \cap ProcessableUnderDir)

IsTerminal(record) == Get(record, "status", "pending") \in {"completed", "error"}

\* C1: the status of the directory's StatusRecord never regresses: once it
\* is completed or error, no later write makes it in_progress or pending.
C1_StatusNeverRegresses ==
    [][IsTerminal(statusBody) => IsTerminal(statusBody')]_vars

\* C2: whenever the StatusRecord says completed, completed_files and
\* total_files both equal the number N of processable files.
C2_CompletedCountsEveryFile ==
    Get(statusBody, "status", "pending") = "completed" =>
        /\ statusBody.total_files = NumProcessable
        /\ statusBody.completed_files = NumProcessable

\* the OutcomeArtifacts of the output bucket
StoredArtifacts ==
    {k \in DOMAIN outMeta : k # StatusKey(Dir) /\ k # BatchFileKey(Dir)}

\* C3: once every Processor invocation has returned, the output bucket holds
\* exactly one OutcomeArtifact per WorkRecord of the manifest.
C3_OneArtifactPerWorkRecord ==
    AllReturned =>
        /\ \A i \in DOMAIN manifestBody :
              OutputKey(manifestBody[i].file_key) \in StoredArtifacts
        /\ Cardinality(StoredArtifacts) = Len(manifestBody)

TokenFields == {"input-tokens", "output-tokens", "total-tokens"}

\* metadata as the Processor writes it: a processing-status of success or
\* error and the three token counts as decimal strings
WellFormedMetadata(m) ==
    /\ Get(m, "processing-status", "") \in {"success", "error"}
    /\ \A f \in TokenFields : f \in DOMAIN m /\ ParseInt(m[f]).ok

\* the OutcomeArtifacts whose metadata call a read in its scan
ScannedArtifacts(a) == aggScan[a].heads \ {BatchFileKey(Dir)}

\* C4: after an Aggregator run with status completed, if the metadata of
\* every artifact it scanned is well-formed, successful_files + failed_files
\* is the number of artifacts it scanned.
C4_TalliesCoverScannedArtifacts ==
    \A a \in AggIds :
        ( /\ aggPc[a] = "done"
          /\ aggEvent[a].status = "completed"
          /\ \A k \in ScannedArtifacts(a) : WellFormedMetadata(outMeta[k]) )
        => aggScan[a].successful_files + aggScan[a].failed_files
              = Cardinality(ScannedArtifacts(a))

\* C4 witness: a completed run has scanned two well-formed artifacts, one a
\* success and one an error, with the manifest beside them.
C4_Witness ==
    /\ aggPc[1] = "done"
    /\ aggEvent[1].status = "completed"
    /\ Cardinality(ScannedArtifacts(1)) = 2
    /\ BatchFileKey(Dir) \in aggScan[1].heads
    /\ \A k \in ScannedArtifacts(1) : WellFormedMetadata(outMeta[k])
    /\ aggScan[1].successful_files = 1
    /\ aggScan[1].failed_files = 1

\* the value a token field of an artifact contributes: 0 when the field is
\* absent or does not parse
FieldOrZero(m, f) ==
    IF f \in DOMAIN m /\ ParseInt(m[f]).ok THEN ParseInt(m[f]).val ELSE 0

RECURSIVE SumField(_, _)
SumField(keys, f) ==
    IF keys = {} THEN 0
    ELSE LET k == CHOOSE x \in keys : TRUE
         IN  FieldOrZero(outMeta[k], f) + SumField(keys \ {k}, f)

\* C5: in every final StatusRecord that carries token_usage, total_tokens is
\* the sum of the input-tokens plus the sum of the output-tokens of the
\* scanned artifacts, an absent or unparseable field counting 0.
C5_TotalIsInputPlusOutput ==
    \A a \in AggIds :
        (aggPc[a] = "done" /\ "token_usage" \in DOMAIN aggWritten[a]) =>
            aggWritten[a].token_usage.total_tokens
                = SumField(aggScan[a].heads, "input-tokens")
                  + SumField(aggScan[a].heads, "output-tokens")

WithoutTimestamp(record) == [k \in DOMAIN record \ {"timestamp"} |-> record[k]]

\* the two calls both wrote, the second read the record of the first, and
\* both read the metadata of the same objects
RepeatedRun ==
    /\ aggPc[1] = "done" /\ aggResult[1] = "200"
    /\ aggPc[2] = "done" /\ aggResult[2] = "200"
    /\ aggEvent[2] = aggEvent[1]
    /\ aggCurrent[2] = aggWritten[1]
    /\ aggScan[2].heads = aggScan[1].heads

\* C6: two Aggregator runs with the same completion signal over the same
\* artifacts, the second reading the record the first wrote, write records
\* that agree in every field but timestamp.
C6_RepeatedRunWritesSameRecord ==
    RepeatedRun => WithoutTimestamp(aggWritten[2]) = WithoutTimestamp(aggWritten[1])

\* C6 witness: a repeated completed run over two scanned artifacts whose
\* records carry the tallies and the token usage, with differing timestamps.
C6_Witness ==
    /\ RepeatedRun
    /\ aggEvent[1].status = "completed"
    /\ Cardinality(ScannedArtifacts(1)) = 2
    /\ "token_usage" \in DOMAIN aggWritten[2]
    /\ aggWritten[1].total_files = 2
    /\ aggWritten[2].timestamp # aggWritten[1].timestamp

\* the Processor invocations that returned an error result
FailedInvocations == {i \in DOMAIN workerResult : workerResult[i] = "error"}

\* C7: when the Planner and every invocation have returned and the
\* Aggregator has run with status completed (here: it read the metadata of
\* every stored artifact and its write went through), the StatusRecord
\* counts the N - k successes and the k failures, and all N artifacts are
\* stored.
C7_FinalRecordCountsOutcomes ==
    ( /\ plannerPc = "done"
      /\ AllReturned
      /\ aggPc[1] = "done"
      /\ aggEvent[1].status = "completed"
      /\ aggResult[1] = "200"
      /\ aggScan[1].heads = {k \in DOMAIN outMeta : IsScanned(k)} )
    => /\ Get(statusBody, "successful_files", -1)
             = NumProcessable - Cardinality(FailedInvocations)
       /\ Get(statusBody, "failed_files", -1) = Cardinality(FailedInvocations)
       /\ Cardinality(StoredArtifacts) = NumProcessable

IsErrorRecordOfNoFiles(data) ==
    /\ data.status = "error"
    /\ data.total_files = 0
    /\ data.completed_files = 0
    /\ data.directory_path = <<"d", "/">>

\* C8: for a directory without processable files the Planner issues no
\* manifest write and no fan-out trigger, and its one status write is an
\* error record of zero files.
C8_NoProcessableFileNoFanout ==
    (upload \in ParsedUploads /\ NumProcessable = 0)
    => /\ manifestPuts = 0
       /\ triggerCalls = 0
       /\ fanout = "none"
       /\ BatchFileKey(Dir) \notin DOMAIN outMeta
       /\ plannerPc = "done" =>
             /\ Len(statusPuts) = 1
             /\ IsErrorRecordOfNoFiles(statusPuts[1])

\* C8 witness: the Planner has returned for a bucket holding, beside the
\* prompt, only a text file of the directory and an image of another one.
C8_Witness ==
    /\ plannerPc = "done"
    /\ upload = "dict"
    /\ inputBucket = {PromptKey, <<"d","/","c",".","t","x","t">>,
                      <<"e","/","x",".","p","n","g">>}
    /\ Len(statusPuts) = 1
    /\ statusBody = statusPuts[1]

C9_OnePlannerRun ==
    /\ manifestPuts = 1
    /\ triggerCalls = 1
    /\ Len(statusPuts) = 1
    /\ statusPuts[1].status = "in_progress"
    /\ statusPuts[1].total_files = NumProcessable
    /\ statusPuts[1].completed_files = 0
    /\ Get(statusPuts[1], "execution_arn", "") = EXECUTION_ARN

\* C9 as stated: for N >= 1 processable files and a valid prompt
\* configuration, a Planner run issues one manifest write, one status write
\* and one trigger, the status being in_progress with total_files N,
\* completed_files 0 and the execution handle.
C9_AsStated ==
    (plannerPc = "done" /\ upload = "dict" /\ NumProcessable >= 1) => C9_OnePlannerRun

\* the run ended at a listing that raised: nothing was written but the status
ListingFailed ==
    /\ plannerFiles = <<>>
    /\ manifestPuts = 0
    /\ triggerCalls = 0

\* the run ended at the manifest put_object that raised
ManifestWriteFailed ==
    /\ plannerFiles # <<>>
    /\ manifestPuts = 1
    /\ BatchFileKey(Dir) \notin DOMAIN outMeta
    /\ triggerCalls = 0

\* the run ended at the start_execution that raised
TriggerFailed ==
    /\ plannerFiles # <<>>
    /\ manifestPuts = 1
    /\ BatchFileKey(Dir) \in DOMAIN outMeta
    /\ triggerCalls = 1

\* C9 amended: for N >= 1 processable files and a valid prompt
\* configuration, a Planner run whose listing, manifest write and trigger
\* succeeded issues one manifest write, one status write and one trigger,
\* the status being in_progress with total_files N, completed_files 0 and the
\* execution handle; a run whose listing, manifest write or trigger failed
\* starts no fan-out and its one status write is an error record with
\* total_files 0 and completed_files 0.
C9_OneRunOrOneErrorRecord ==
    (plannerPc = "done" /\ upload = "dict" /\ NumProcessable >= 1)
    => \/ /\ fanout = "running"
          /\ C9_OnePlannerRun
       \/ /\ fanout = "none"
          /\ ListingFailed \/ ManifestWriteFailed \/ TriggerFailed
          /\ workerPc = <<>>
          /\ Len(statusPuts) = 1
          /\ IsErrorRecordOfNoFiles(statusPuts[1])

\* C9 witness: the Planner has returned after starting the fan-out for a
\* directory of two images, one with an upper-case extension, and a text file.
C9_Witness ==
    /\ plannerPc = "done"
    /\ fanout = "running"
    /\ inputBucket = {PromptKey} \cup ProcessableUnderDir
                        \cup {<<"d","/","c",".","t","x","t">>}
    /\ Len(manifestBody) = 2
    /\ statusBody = statusPuts[1]

PlanningFailures == {"unreadable", "invalid_json", "no_prompt"}

\* C10: when the prompt configuration is unreadable, not JSON or lacks
\* 'prompt', no fan-out is triggered, and the Planner returns statusCode 200
\* after issuing one status write, of an error record of zero files.
C10_PlanningFailureIsReported ==
    upload \in PlanningFailures
    => /\ triggerCalls = 0
       /\ fanout = "none"
       /\ plannerResult # "raised"
       /\ plannerPc = "done" =>
             /\ plannerResult = "200"
             /\ Len(statusPuts) = 1
             /\ IsErrorRecordOfNoFiles(statusPuts[1])

\* C10 witness: the Planner has returned 200 for a prompt that is not JSON,
\* its status write having failed silently.
C10_Witness ==
    /\ upload = "invalid_json"
    /\ plannerPc = "done"
    /\ plannerResult = "200"
    /\ Len(statusPuts) = 1
    /\ statusBody = EmptyDict

\* C11: every Processor invocation, whatever event it is handed and whatever
\* fails, returns a result whose status is success or error; no exception
\* leaves the handler.
C11_ProcessorAlwaysReturns ==
    \A i \in DOMAIN workerPc :
        workerPc[i] = "done" => workerResult[i] \in {"success", "error"}

\* C12: the record_id of a work record identifies its file: no two work
\* records of a manifest, made from distinct file keys, carry the same
\* record_id.
C12_RecordIdsAreDistinct ==
    \A i, j \in DOMAIN manifestBody :
        manifestBody[i].file_key # manifestBody[j].file_key
            => manifestBody[i].recordId # manifestBody[j].recordId

\* C13 as stated: in every StatusRecord, completed_files equals total_files
\* only if the status is completed.
C13_AsStated ==
    (statusBody # EmptyDict /\ statusBody.completed_files = statusBody.total_files)
        => statusBody.status = "completed"

\* the record was put by an Aggregator call on a signal other than
\* "completed" that had read a record whose two counts were already equal:
\* lines 90-91 copy both counts of the record read
CopiedFromEqualCounts ==
    \E a \in AggIds :
        /\ lastWriter = <<"aggregator", a>>
        /\ aggEvent[a].status # "completed"
        /\ aggCurrent[a] # EmptyDict
        /\ aggCurrent[a].total_files = statusBody.total_files
        /\ aggCurrent[a].completed_files = statusBody.completed_files

\* C13 amended: in every StatusRecord, completed_files equals total_files
\* only if the status is completed, or both are 0, or the record was written
\* by an Aggregator call on a signal other than "completed" that copied the
\* two counts from a record in which they were equal (as a call on "error"
\* after a completed record does); and an error record the Planner writes has
\* total_files 0 and completed_files 0.
C13_EqualCountsCompletedZeroOrCopied ==
    /\ ( /\ statusBody # EmptyDict
         /\ statusBody.completed_files = statusBody.total_files
         /\ statusBody.status # "completed" )
       => \/ statusBody.total_files = 0
          \/ CopiedFromEqualCounts
    /\ \A n \in DOMAIN statusPuts :
          statusPuts[n].status = "error" => IsErrorRecordOfNoFiles(statusPuts[n])

\* C13 witness: after a call on "completed" wrote the record of a directory
\* of two files, both counted as completed, a call on "error" read that
\* record and wrote an error record with the same two counts.
C13_Witness ==
    /\ \E a \in AggIds :
          /\ aggResult[a] = "200"
          /\ aggWritten[a].status = "completed"
          /\ aggWritten[a].total_files = 2
          /\ aggWritten[a].completed_files = 2
    /\ Len(lastWriter) = 2
    /\ statusBody.status = "error"
    /\ statusBody.total_files = 2
    /\ statusBody.completed_files = 2

\* C14: total_files is fixed when the record is created: every Aggregator
\* write onto an existing StatusRecord stores the total_files that record
\* holds.
C14_AggregatorKeepsTotalFiles ==
    [][\A a \in AggIds :
          ( /\ aggPc[a] = "built" /\ aggPc'[a] = "done" /\ aggResult'[a] = "200"
            /\ statusBody # EmptyDict )
          => statusBody'.total_files = statusBody.total_files]_vars

\* the artifacts a run counted as success or error
Counted(a) == aggScan[a].successful_files + aggScan[a].failed_files

\* C15: a StatusRecord the Aggregator writes carries token_usage only if the
\* aggregated total_tokens is positive, carries successful_files and
\* failed_files together and only if an artifact was counted, and carries
\* none of the three when no artifact was counted.
C15_ResultFieldsOnlyWhenCounted ==
    \A a \in AggIds :
        aggResult[a] = "200" =>
            LET fields == DOMAIN aggWritten[a]
            IN  /\ "token_usage" \in fields => aggScan[a].total_tokens > 0
                /\ "successful_files" \in fields <=> "failed_files" \in fields
                /\ "successful_files" \in fields => Counted(a) > 0
                /\ Counted(a) = 0 =>
                      fields \cap {"successful_files", "failed_files", "token_usage"} = {}

\* C15 witness: the first call wrote a record with the counts of two
\* successes, failed_files 0 beside them, and the token usage; the repeated
\* call counted no artifact (its listing raised) and wrote a record without
\* the counts.
C15_Witness ==
    /\ aggResult[1] = "200"
    /\ aggEvent[1].status = "completed"
    /\ Counted(1) = 2
    /\ aggWritten[1].successful_files = 2
    /\ aggWritten[1].failed_files = 0
    /\ "token_usage" \in DOMAIN aggWritten[1]
    /\ aggResult[2] = "200"
    /\ Counted(2) = 0
    /\ "successful_files" \notin DOMAIN aggWritten[2]

\* C16 as stated: once an Aggregator call runs on a terminal completion
\* signal, the StatusRecord eventually holds completed or error.
C16_AsStated ==
    \A a \in AggIds : (aggPc[a] = "read") ~> IsTerminal(statusBody)

\* C16 amended: once an Aggregator call runs on a terminal completion
\* signal, whatever listing or metadata read failed, eventually the
\* StatusRecord holds completed or error, or the call has returned 500
\* because its put_object raised; and the step that returns 500 leaves the
\* StatusRecord as it was.
C16_TerminalUnlessWriteFails ==
    /\ \A a \in AggIds :
          (aggPc[a] = "read") ~> (IsTerminal(statusBody) \/ aggResult[a] = "500")
    /\ [][\A a \in AggIds :
            (aggResult[a] # "500" /\ aggResult'[a] = "500")
            => (statusBody' = statusBody /\ outMeta' = outMeta)]_vars

\* C16 witness: a completed run over two artifacts lost one of them to a
\* failed metadata read, counted the other and wrote the terminal record
\* over the Planner's in_progress one.
C16_Witness ==
    /\ aggPc[1] = "done"
    /\ aggResult[1] = "200"
    /\ aggCurrent[1] # EmptyDict
    /\ aggCurrent[1].status = "in_progress"
    /\ Cardinality(StoredArtifacts) = 2
    /\ Cardinality(ScannedArtifacts(1)) = 1
    /\ Counted(1) = 1
    /\ lastWriter = <<"aggregator", 1>>
    /\ statusBody.status = "completed"

\* the required fields of the tool's inputSchema
REQUIRED_FIELDS == {"transcribed_text", "detected_languages"}

\* the response carries a use of the transcription tool whose input is an
\* object with every required field, detected_languages being an array
MeetsSchema(response) ==
    /\ Get(response, "stopReason", "") = "tool_use"
    /\ "output" \in DOMAIN response
    /\ \E n \in DOMAIN response.output.message.content :
          LET block == response.output.message.content[n]
          IN  /\ "toolUse" \in DOMAIN block
              /\ block.toolUse.name = TOOL_NAME
              /\ block.toolUse.input.t = "dict"
              /\ REQUIRED_FIELDS \subseteq DOMAIN block.toolUse.input.v
              /\ block.toolUse.input.v["detected_languages"].t = "list"

IsZeroedErrorMetadata(m) ==
    /\ Get(m, "processing-status", "") = "error"
    /\ "error-code" \in DOMAIN m
    /\ \A f \in TokenFields : Get(m, f, <<>>) = <<"0">>

\* C17: an invocation whose model response lacks a required field or is
\* otherwise structurally invalid returns no success result and stores no
\* success artifact: the object it stores has processing-status error, an
\* error code and the three token counts "0".  (An invocation whose
\* put_object of the error artifact raised stored nothing; that case is the
\* subject of C3 and is left aside here.)
C17_InvalidResponseGivesErrorArtifact ==
    \A i \in DOMAIN workerPc :
        ( /\ workerPc[i] = "done"
          /\ workerResponse[i] # NoResponse
          /\ ~ MeetsSchema(workerResponse[i]) )
        => /\ workerResult[i] = "error"
           /\ workerOutcome[i] # EmptyDict =>
                 /\ IsZeroedErrorMetadata(workerOutcome[i])
                 /\ outMeta[OutputKey(manifestBody[i].file_key)] = workerOutcome[i]

\* the Planner has issued the write of the initial in_progress record
InProgressWritten ==
    \E n \in DOMAIN statusPuts : statusPuts[n].status = "in_progress"

\* C18: the Planner writes the in_progress StatusRecord before it starts
\* the fan-out: while the fan-out runs, and whenever a Processor invocation
\* has run or an Aggregator call has started, that write has been issued.
C18_StatusWrittenBeforeFanout ==
    ( \/ fanout = "running"
      \/ \E i \in DOMAIN workerPc : workerPc[i] = "done"
      \/ \E a \in AggIds : aggPc[a] # "idle" )
    => InProgressWritten

\* the sum of a token field over the objects the invocations of ids stored
RECURSIVE OutcomeTokens(_, _)
OutcomeTokens(ids, f) ==
    IF ids = {} THEN 0
    ELSE LET i == CHOOSE x \in ids : TRUE
         IN  FieldOrZero(workerOutcome[i], f) + OutcomeTokens(ids \ {i}, f)

OutcomeCount(status) ==
    Cardinality({i \in DOMAIN workerOutcome :
                    Get(workerOutcome[i], "processing-status", "") = status})

\* the tallies as the per-record outcomes alone determine them, whatever the
\* order in which the invocations completed
OutcomeTally ==
    [input_tokens |-> OutcomeTokens(DOMAIN workerOutcome, "input-tokens"),
     output_tokens |-> OutcomeTokens(DOMAIN workerOutcome, "output-tokens"),
     total_tokens |-> OutcomeTokens(DOMAIN workerOutcome, "total-tokens"),
     successful_files |-> OutcomeCount("success"),
     failed_files |-> OutcomeCount("error"),
     heads |-> {}]

\* C19: the final StatusRecord the Aggregator writes after the barrier is
\* determined by the work records' outcomes (with the completion signal and
\* the record it read), so it is the same, but for the timestamp, in every
\* order in which the invocations completed and stored their artifacts.
C19_FinalRecordIgnoresCompletionOrder ==
    \A a \in AggIds :
        ( /\ AllReturned
          /\ aggPc[a] = "done" /\ aggResult[a] = "200"
          /\ aggEvent[a].status = "completed"
          /\ aggScan[a].heads = {k \in DOMAIN outMeta : IsScanned(k)} )
        => aggWritten[a] = AggStatusData(aggEvent[a], aggCurrent[a], OutcomeTally,
                                         aggWritten[a].timestamp)

\* C19 witness: two invocations with different outcomes, a success with
\* token counts and an error, have both stored their artifacts and the
\* Aggregator has written the record counting one of each.
C19_Witness ==
    /\ AllReturned
    /\ Len(manifestBody) = 2
    /\ workerResult = <<"success", "error">>
    /\ workerOutcome[1] # EmptyDict /\ workerOutcome[2] # EmptyDict
    /\ aggResult[1] = "200"
    /\ aggScan[1].heads = {k \in DOMAIN outMeta : IsScanned(k)}
    /\ Get(aggWritten[1], "successful_files", 0) = 1
    /\ Get(aggWritten[1], "failed_files", 0) = 1
    /\ "token_usage" \in DOMAIN aggWritten[1]

\* C20: when two Aggregator calls interleave, the StatusRecord stored after
\* both returned is the whole record of the call that wrote last, and its
\* total_files is the value of the record the Planner wrote.
C20_LastWriterWinsKeepingTotal ==
    ( /\ \A a \in AggIds : aggPc[a] = "done"
      /\ Len(lastWriter) = 2 )
    => /\ statusBody = aggWritten[lastWriter[2]]
       /\ Len(statusPuts) = 1 => statusBody.total_files = statusPuts[1].total_files

\* the stored artifacts whose metadata carries the processing-status
ArtifactsOfStatus(status) ==
    {k \in StoredArtifacts : Get(outMeta[k], "processing-status", "") = status}

\* C21: after a cancellation that left only some invocations' artifacts,
\* those artifacts are stored as the invocations wrote them, and the record
\* a later Aggregator run writes (its metadata reads and its put_object
\* going through) has a terminal status and counts exactly the artifacts
\* that exist, an absent count standing for none.
C21_CancelledBatchIsTallied ==
    ( /\ fanout = "cancelled"
      /\ aggPc[1] = "done" /\ aggResult[1] = "200"
      /\ aggEvent[1].status = "completed" =>
             aggScan[1].heads = {k \in DOMAIN outMeta : IsScanned(k)} )
    => /\ \A i \in DOMAIN workerOutcome :
             workerOutcome[i] # EmptyDict =>
                outMeta[OutputKey(manifestBody[i].file_key)] = workerOutcome[i]
       /\ IsTerminal(statusBody)
       /\ Get(statusBody, "successful_files", 0)
             = Cardinality(ArtifactsOfStatus("success"))
       /\ Get(statusBody, "failed_files", 0)
             = Cardinality(ArtifactsOfStatus("error"))

\* C22: the Aggregator's scan reads the metadata of OutcomeArtifacts only,
\* never that of the status record or of the work manifest of the directory.
C22_ScanReadsOnlyArtifacts ==
    \A a \in AggIds :
        aggScan[a].heads \cap {StatusKey(Dir), BatchFileKey(Dir)} = {}

\* the objects under the directory prefix that the scan selects
Selected == {k \in DOMAIN outMeta : StartsWith(k, Dir) /\ IsScanned(k)}

\* C23: read failures degrade an Aggregator run without stopping it.  A run
\* that could not read the current StatusRecord writes total_files and
\* completed_files 0; a run whose listing returned reads the metadata of
\* every selected object but those whose read failed, and (the metadata
\* being well-formed) its counts and token sums are those of the objects it
\* read, the others adding nothing.
C23_ReadFailuresDegrade ==
    \A a \in AggIds :
        /\ (aggResult[a] = "200" /\ aggCurrent[a] = EmptyDict) =>
              /\ aggWritten[a].total_files = 0
              /\ aggWritten[a].completed_files = 0
        /\ (aggPc[a] \in {"scanned", "built", "done"} /\ aggScan[a].listed) =>
              /\ aggScan[a].heads \cup aggScan[a].skipped = Selected
              /\ aggScan[a].heads \cap aggScan[a].skipped = {}
              /\ (\A k \in ScannedArtifacts(a) : WellFormedMetadata(outMeta[k])) =>
                    /\ aggScan[a].successful_files = Cardinality(
                          {k \in aggScan[a].heads :
                              Get(outMeta[k], "processing-status", "") = "success"})
                    /\ aggScan[a].failed_files = Cardinality(
                          {k \in aggScan[a].heads :
                              Get(outMeta[k], "processing-status", "") = "error"})
                    /\ aggScan[a].input_tokens = SumField(aggScan[a].heads, "input-tokens")
                    /\ aggScan[a].output_tokens = SumField(aggScan[a].heads, "output-tokens")
                    /\ aggScan[a].total_tokens = SumField(aggScan[a].heads, "total-tokens")

\* C23 witness: a completed run failed to read the Planner's record and the
\* metadata of one of two artifacts, counted the other, and wrote the final
\* record with total_files 0.
C23_Witness ==
    /\ aggResult[1] = "200"
    /\ aggEvent[1].status = "completed"
    /\ Len(statusPuts) = 1
    /\ aggCurrent[1] = EmptyDict
    /\ Cardinality(StoredArtifacts) = 2
    /\ Cardinality(aggScan[1].skipped \cap StoredArtifacts) = 1
    /\ \A k \in ScannedArtifacts(1) : WellFormedMetadata(outMeta[k])
    /\ Counted(1) = 1
    /\ aggWritten[1].total_files = 0
    /\ aggWritten[1].successful_files + aggWritten[1].failed_files = 1

\* the keys of the input bucket that the selection is to return: under the
\* directory prefix, not ending in .json or "/", of a supported extension
\* whatever its case
SelectableKeys ==
    {k \in inputBucket :
        /\ StartsWith(k, Dir)
        /\ ~ EndsWith(k, DotJson)
        /\ ~ EndsWith(k, <<"/">>)
        /\ \E i \in 1..Len(SUPPORTED_EXTENSIONS) :
              Lower(SplitExt(k)) = SUPPORTED_EXTENSIONS[i]}

\* C24: once the Planner has listed the directory, the files it holds are
\* exactly the selectable keys of the bucket, each once and in listing
\* order; a listing that raised lists no key and selects none.
C24_SelectionIsExact ==
    (plannerPc # "start" /\ upload \in ParsedUploads) =>
        LET keys == [i \in 1..Len(plannerFiles) |-> plannerFiles[i].key]
        IN  \/ keys = SortKeys(SelectableKeys)
            \/ /\ keys = <<>>
               /\ manifestPuts = 0
               /\ plannerStatusData.message = <<"No processable files found">>

\* C24 witness: the directory holds its marker, an upper-case JPG, a text
\* file and the prompt configuration; only the JPG is selected.
C24_Witness ==
    /\ plannerPc = "done"
    /\ upload \in ParsedUploads
    /\ inputBucket = {PromptKey, <<"d","/">>, <<"d","/","b",".","J","P","G">>,
                      <<"d","/","c",".","t","x","t">>}
    /\ Len(plannerFiles) = 1
    /\ plannerFiles[1].key = <<"d","/","b",".","J","P","G">>
    /\ plannerFiles[1].format = <<"j","p","g">>

\* C25: an Aggregator run on a completion signal whose status is not
\* "completed" lists nothing and reads no metadata, and the record it
\* writes has no successful_files, failed_files or token_usage and carries
\* the total_files and completed_files of the record the run read (0 for a
\* field the record read does not have).
C25_OtherStatusLeavesCounts ==
    \A a \in AggIds :
        (aggPc[a] \in {"read", "built", "done"} /\ aggEvent[a].status # "completed") =>
            /\ ~ aggScan[a].listed
            /\ aggScan[a].heads = {}
            /\ aggScan[a].skipped = {}
            /\ aggResult[a] = "200" =>
                  /\ DOMAIN aggWritten[a] \cap
                        {"successful_files", "failed_files", "token_usage"} = {}
                  /\ aggWritten[a].total_files = Get(aggCurrent[a], "total_files", 0)
                  /\ aggWritten[a].completed_files =
                        Get(aggCurrent[a], "completed_files", 0)

\* C25 witness: an "error" signal arrives for a directory of two stored
\* artifacts whose record says 2 files, none completed; the run reads the
\* record and writes an error record with the same two numbers.
C25_Witness ==
    /\ aggResult[1] = "200"
    /\ aggEvent[1].status = "error"
    /\ Cardinality(StoredArtifacts) = 2
    /\ Get(aggCurrent[1], "total_files", 0) = 2
    /\ aggWritten[1].status = "error"
    /\ aggWritten[1].total_files = 2
    /\ aggWritten[1].completed_files = 0

\* C26: a stored StatusRecord of status "completed" that carries the
\* tallies never counts more artifacts than its total_files.
C26_TalliesWithinTotal ==
    (/\ Get(statusBody, "status", "pending") = "completed"
     /\ "successful_files" \in DOMAIN statusBody) =>
        statusBody.successful_files + statusBody.failed_files <= statusBody.total_files

\* C27: an in_progress StatusRecord the Planner writes has for total_files
\* the number of WorkRecords of the manifest written in the same run, and
\* the manifest holds one WorkRecord per selected file, in listing order.
C27_TotalIsManifestLength ==
    \A i \in 1..Len(statusPuts) :
        statusPuts[i].status = "in_progress" =>
            /\ statusPuts[i].total_files = Len(manifestBody)
            /\ [j \in 1..Len(manifestBody) |-> manifestBody[j].file_key]
                  = [j \in 1..Len(plannerFiles) |-> plannerFiles[j].key]

====
